---- MODULE Spec2Model ----
(***************************************************************************)
(* Model of the Argo CD Repository service (server/repository/             *)
(* repository.go): the gRPC handlers List, ListApps, Get, Create, Update   *)
(* and Delete over the repository store (db.ArgoDB) behind the RBAC        *)
(* enforcer, and of the per-application sync operation state machine.      *)
(*                                                                         *)
(* A pointer is modelled as a set with at most one element: {} is nil,     *)
(* {r} points to r.  A repository list is modelled as the set of its       *)
(* items.  A gRPC status is modelled by the name of its code.              *)
(***************************************************************************)
EXTENDS Integers, Sequences, FiniteSets, TLC

\* ---------------------------------------------------------------- bounds
NumRepos == 2
NumApps == 2
NumOps == 3

\* ---------------------------------------------------------------- values
URLs == 1..NumRepos

ConnectionStatusSuccessful == "Successful"

\* appsv1.ConnectionState values: the zero value and a successful one
ZeroConnectionState == [Status |-> "", Message |-> ""]
SuccessfulConnectionState == [Status |-> ConnectionStatusSuccessful, Message |-> ""]

\* credentials a request may carry: password authentication and SSH key
Credentials ==
  { [Username |-> "user", Password |-> "pw", SSHPrivateKey |-> ""],
    [Username |-> "git", Password |-> "", SSHPrivateKey |-> "key"] }

Repository(url, cred, conn) ==
  [Repo |-> url, Username |-> cred.Username, Password |-> cred.Password,
   SSHPrivateKey |-> cred.SSHPrivateKey, ConnectionState |-> conn]

\* repositories a caller may send; a caller leaves ConnectionState unset
RequestRepos ==
  { Repository(u, c, ZeroConnectionState) : u \in URLs, c \in Credentials }

Ptr(S) == CHOOSE x \in S : TRUE

VARIABLES store, last, phase, opApp, token, cancelled, rejectedWhile

vars == <<store, last, phase, opApp, token, cancelled, rejectedWhile>>
repoVars == <<store, last>>
syncVars == <<phase, opApp, token, cancelled, rejectedWhile>>

\* ------------------------------------------------------------- enforcer
\* s.enf.EnforceClaims(claims, resource, action, object): the claims of a
\* caller are modelled by the set of (resource, action, object) it is granted
EnforceClaims(claims, resource, action, object) ==
  <<resource, action, object>> \in claims

\* ---------------------------------------------------------------- store
\* db.ArgoDB: a set of repositories keyed by Repo; every call returns a copy
Result(st, repo, err) == [store |-> st, repo |-> repo, err |-> err]

Stored(st, url) == { e \in st : e.Repo = url }

\* the list is never nil while the store answers
ListRepositories(st) == [list |-> {st}, err |-> "OK"]

CreateRepository(st, r) ==
  IF Stored(st, r.Repo) # {}
    THEN Result(st, {}, "AlreadyExists")
    ELSE Result(st \cup {r}, {r}, "OK")

GetRepository(st, url) ==
  IF Stored(st, url) = {}
    THEN Result(st, {}, "NotFound")
    ELSE Result(st, Stored(st, url), "OK")

UpdateRepository(st, r) ==
  IF Stored(st, r.Repo) = {}
    THEN Result(st, {}, "NotFound")
    ELSE Result((st \ Stored(st, r.Repo)) \cup {r}, {r}, "OK")

DeleteRepository(st, url) ==
  IF Stored(st, url) = {}
    THEN Result(st, {}, "NotFound")
    ELSE Result(st \ Stored(st, url), {}, "OK")

\* -------------------------------------------------------------- handlers
\* what a handler hands back: the store after it, the error, the repository
\* or list it returns, and the store calls it made, in order
Response(st, err, repo, items, calls) ==
  [store |-> st, err |-> err, repo |-> repo, items |-> items, calls |-> calls]

redact(repo) ==
  IF repo = {} THEN {}
  ELSE { [Ptr(repo) EXCEPT !.Password = "", !.SSHPrivateKey = ""] }

List(st, claims) ==
  LET l == ListRepositories(st)
      newItems == { Ptr(redact({repo})) : repo \in
                      { e \in Ptr(l.list) :
                          EnforceClaims(claims, "repositories", "get", e.Repo) } }
  IN  IF l.list # {}
        THEN Response(st, l.err, {}, newItems, <<"ListRepositories">>)
        ELSE Response(st, l.err, {}, {}, <<"ListRepositories">>)

GetLeaky(st, claims, q) ==
  LET g == GetRepository(st, q)
  IN  IF ~EnforceClaims(claims, "repositories", "get", q)
        THEN Response(st, "OK", {}, {}, <<>>)
        ELSE Response(g.store, g.err, redact(g.repo), {}, <<"GetRepository">>)

Get(st, claims, q) ==
  IF ~EnforceClaims(claims, "repositories", "get", q)
    THEN Response(st, "PermissionDenied", {}, {}, <<>>)
    ELSE LET g == GetRepository(st, q)
         IN  Response(g.store, g.err, redact(g.repo), {}, <<"GetRepository">>)

\* q.Revision, "HEAD" when empty
Revision(revision) == IF revision = "" THEN "HEAD" ELSE revision

\* repoOK: whether the repository server lists and reads the files; the
\* response is modelled by the repository and revision that were listed
ListApps(st, claims, q, repoOK) ==
  IF ~EnforceClaims(claims, "repositories/apps", "get", q.Repo)
    THEN Response(st, "PermissionDenied", {}, {}, <<>>)
    ELSE LET g == GetRepository(st, q.Repo)
         IN  IF g.err # "OK"
               THEN Response(st, g.err, {}, {}, <<"GetRepository">>)
               ELSE IF ~repoOK
                 THEN Response(st, "Unavailable", {}, {}, <<"GetRepository">>)
                 ELSE Response(st, "OK", {},
                               {[Repo |-> q.Repo, Revision |-> Revision(q.Revision)]},
                               <<"GetRepository">>)

UpdateUnchecked(st, claims, q) ==
  LET u == UpdateRepository(st, q)
  IN  Response(u.store, u.err, redact(u.repo), {}, <<"UpdateRepository">>)

Update(st, claims, q) ==
  IF ~EnforceClaims(claims, "repositories", "update", q.Repo)
    THEN Response(st, "PermissionDenied", {}, {}, <<>>)
    ELSE LET u == UpdateRepository(st, q)
         IN  Response(u.store, u.err, redact(u.repo), {}, <<"UpdateRepository">>)

DeleteThenCheck(st, claims, q) ==
  LET d == DeleteRepository(st, q)
  IN  IF ~EnforceClaims(claims, "repositories", "delete", q)
        THEN Response(d.store, "PermissionDenied", {}, {}, <<"DeleteRepository">>)
        ELSE Response(d.store, d.err, {}, {}, <<"DeleteRepository">>)

Delete(st, claims, q) ==
  IF ~EnforceClaims(claims, "repositories", "delete", q)
    THEN Response(st, "PermissionDenied", {}, {}, <<>>)
    ELSE LET d == DeleteRepository(st, q)
         IN  Response(d.store, d.err, {}, {}, <<"DeleteRepository">>)

\* r.ConnectionState = appsv1.ConnectionState{Status: ConnectionStatusSuccessful}
KeepConnectionState(r) == r

MarkSuccessful(r) == [r EXCEPT !.ConnectionState = SuccessfulConnectionState]

\* existing.ConnectionState = r.ConnectionState; reflect.DeepEqual(existing, r)
DeepEqualAsStored(existing, r) == existing = r

SameURL(existing, r) == existing.Repo = r.Repo

SpecMatches(existing, r) ==
  [existing EXCEPT !.ConnectionState = r.ConnectionState] = r

\* testOK: whether git.TestRepo reaches the repository, at its normalized URL,
\* with the credentials of the request
Create(st, claims, q, testOK) ==
  IF ~EnforceClaims(claims, "repositories", "create", q.Repo.Repo)
    THEN Response(st, "PermissionDenied", {}, {}, <<>>)
  ELSE IF ~testOK
    THEN Response(st, "TestRepoError", {}, {}, <<>>)
  ELSE
    LET r == MarkSuccessful(q.Repo)
        c == CreateRepository(st, r)
    IN  IF c.err = "AlreadyExists"
          THEN LET g == GetRepository(c.store, r.Repo)
               IN  IF g.err # "OK"
                     THEN Response(g.store, "Internal", {}, {},
                                   <<"CreateRepository", "GetRepository">>)
                   ELSE IF SpecMatches(Ptr(g.repo), r)
                     THEN Response(g.store, "OK",
                            redact({[Ptr(g.repo) EXCEPT
                                       !.ConnectionState = r.ConnectionState]}),
                            {}, <<"CreateRepository", "GetRepository">>)
                   ELSE IF q.Upsert
                     THEN LET u == Update(g.store, claims, r)
                          IN  Response(u.store, u.err, u.repo, {},
                                 <<"CreateRepository", "GetRepository">> \o u.calls)
                   ELSE Response(g.store, "InvalidArgument", {}, {},
                                 <<"CreateRepository", "GetRepository">>)
          ELSE Response(c.store, c.err, redact(c.repo), {}, <<"CreateRepository">>)

\* ------------------------------------------------------- the service calls
NoCall ==
  [op |-> "none", url |-> 0, repo |-> {}, upsert |-> FALSE, testOK |-> FALSE,
   claims |-> {}, before |-> {}, err |-> "OK", res |-> {}, items |-> {},
   calls |-> <<>>]

Call(op, url, repo, upsert, testOK, claims, resp) ==
  [op |-> op, url |-> url, repo |-> repo, upsert |-> upsert, testOK |-> testOK,
   claims |-> claims, before |-> store, err |-> resp.err, res |-> resp.repo,
   items |-> resp.items, calls |-> resp.calls]

Grants(resource, actions, urls) ==
  { <<resource, a, u>> : a \in actions, u \in urls }

DoList ==
  \E claims \in SUBSET Grants("repositories", {"get"}, URLs) :
    LET resp == List(store, claims)
    IN  /\ store' = resp.store
        /\ last' = Call("List", 0, {}, FALSE, FALSE, claims, resp)
        /\ UNCHANGED syncVars

DoListApps ==
  \E url \in URLs, revision \in {"", "v1"}, repoOK \in BOOLEAN :
  \E claims \in SUBSET (Grants("repositories/apps", {"get"}, {url})
                          \cup Grants("repositories", {"get"}, {url})) :
    LET resp == ListApps(store, claims, [Repo |-> url, Revision |-> revision], repoOK)
    IN  /\ store' = resp.store
        /\ last' = Call("ListApps", url, {}, FALSE, repoOK, claims, resp)
        /\ UNCHANGED syncVars

DoGet ==
  \E url \in URLs :
  \E claims \in SUBSET Grants("repositories", {"get"}, {url}) :
    LET resp == Get(store, claims, url)
    IN  /\ store' = resp.store
        /\ last' = Call("Get", url, {}, FALSE, FALSE, claims, resp)
        /\ UNCHANGED syncVars

DoCreate ==
  \E repo \in RequestRepos, upsert \in BOOLEAN, testOK \in BOOLEAN :
  \E claims \in SUBSET Grants("repositories", {"create", "update"}, {repo.Repo}) :
    LET resp == Create(store, claims, [Repo |-> repo, Upsert |-> upsert], testOK)
    IN  /\ store' = resp.store
        /\ last' = Call("Create", repo.Repo, {repo}, upsert, testOK, claims, resp)
        /\ UNCHANGED syncVars

DoUpdate ==
  \E repo \in RequestRepos :
  \E claims \in SUBSET Grants("repositories", {"update"}, {repo.Repo}) :
    LET resp == Update(store, claims, repo)
    IN  /\ store' = resp.store
        /\ last' = Call("Update", repo.Repo, {repo}, FALSE, FALSE, claims, resp)
        /\ UNCHANGED syncVars

DoDelete ==
  \E url \in URLs :
  \E claims \in SUBSET Grants("repositories", {"delete"}, {url}) :
    LET resp == Delete(store, claims, url)
    IN  /\ store' = resp.store
        /\ last' = Call("Delete", url, {}, FALSE, FALSE, claims, resp)
        /\ UNCHANGED syncVars

Init ==
  /\ store = {}
  /\ last = NoCall
  /\ phase = [o \in 1..NumOps |-> "None"]
  /\ opApp = [o \in 1..NumOps |-> 0]
  /\ token = [a \in 1..NumApps |-> 0]
  /\ cancelled = {}
  /\ rejectedWhile = [o \in 1..NumOps |-> 0]

Next ==
  \/ DoList
  \/ DoListApps
  \/ DoGet
  \/ DoCreate
  \/ DoUpdate
  \/ DoDelete

Spec == Init /\ [][Next]_vars

\* ------------------------------------------------------- sync operations
\* The sync operation state machine: Pending -> Running -> {Succeeded, Failed,
\* Error, Terminated}, one mutual-exclusion token per application.
Apps == 1..NumApps
Ops == 1..NumOps

Outcomes == {"Succeeded", "Failed", "Error"}

RunningFor(a) == { o \in Ops : phase[o] = "Running" /\ opApp[o] = a }

AlwaysFree(a) == TRUE

\* no other operation is Running for the application: its token is free
TokenFree(a) == token[a] = 0

\* a manual sync request is accepted at any time
ManualSync ==
  \E o \in Ops, a \in Apps :
    /\ phase[o] = "None"
    /\ phase' = [phase EXCEPT ![o] = "Pending"]
    /\ opApp' = [opApp EXCEPT ![o] = a]
    /\ UNCHANGED <<token, cancelled, rejectedWhile, repoVars>>

\* the reconciler requests a sync only while no operation is Running
AutoSync ==
  \E o \in Ops, a \in Apps :
    /\ phase[o] = "None"
    /\ RunningFor(a) = {}
    /\ phase' = [phase EXCEPT ![o] = "Pending"]
    /\ opApp' = [opApp EXCEPT ![o] = a]
    /\ UNCHANGED <<token, cancelled, rejectedWhile, repoVars>>

\* Pending -> Running on dispatch when the token is free, else rejected
Dispatch ==
  \E o \in Ops :
    /\ phase[o] = "Pending"
    /\ IF TokenFree(opApp[o])
         THEN /\ phase' = [phase EXCEPT ![o] = "Running"]
              /\ token' = [token EXCEPT ![opApp[o]] = o]
              /\ UNCHANGED rejectedWhile
         ELSE /\ phase' = [phase EXCEPT ![o] = "Rejected"]
              /\ rejectedWhile' = [rejectedWhile EXCEPT ![o] = token[opApp[o]]]
              /\ UNCHANGED token
    /\ UNCHANGED <<opApp, cancelled, repoVars>>

\* cancellation is requested of a Running operation and honoured cooperatively
Cancel ==
  \E o \in Ops :
    /\ phase[o] = "Running"
    /\ o \notin cancelled
    /\ cancelled' = cancelled \cup {o}
    /\ UNCHANGED <<phase, opApp, token, rejectedWhile, repoVars>>

\* a Running operation ends and gives its token back
Finish ==
  \E o \in Ops, outcome \in Outcomes :
    /\ phase[o] = "Running"
    /\ phase' = [phase EXCEPT ![o] = IF o \in cancelled THEN "Terminated" ELSE outcome]
    /\ token' = [token EXCEPT ![opApp[o]] = IF token[opApp[o]] = o THEN 0 ELSE @]
    /\ UNCHANGED <<opApp, cancelled, rejectedWhile, repoVars>>

NextSync ==
  \/ ManualSync
  \/ AutoSync
  \/ Dispatch
  \/ Cancel
  \/ Finish

SpecSync == Init /\ [][NextSync]_vars

\* ------------------------------------------------------------ properties
Granted(action) == <<"repositories", action, last.url>> \in last.claims

ActionOf(op) ==
  IF op = "Create" THEN "create" ELSE IF op = "Update" THEN "update" ELSE "delete"

WriteCalls == {"CreateRepository", "UpdateRepository", "DeleteRepository"}

NoWriteCall == \A i \in 1..Len(last.calls) : last.calls[i] \notin WriteCalls

Requested == Ptr(last.repo)

\* the repository stored before the call under the requested URL, as a pointer
Existing == { e \in last.before : e.Repo = last.url }

\* equal in every field other than ConnectionState
SameSpec(a, b) ==
  [a EXCEPT !.ConnectionState = ZeroConnectionState]
    = [b EXCEPT !.ConnectionState = ZeroConnectionState]

Redacted(r) == [r EXCEPT !.Password = "", !.SSHPrivateKey = ""]

AsWritten(r) == [r EXCEPT !.ConnectionState = SuccessfulConnectionState]

\* an authorised Create whose connection test passed
CreatePassed == last.op = "Create" /\ Granted("create") /\ last.testOK

\* C1: a Create, Update or Delete whose capability check ("create", "update",
\* "delete" on "repositories" for the requested URL) is denied makes no write
\* call to the store, and the store after it is the store before it.
C1_DeniedWriteLeavesStore ==
  (last.op \in {"Create", "Update", "Delete"} /\ ~Granted(ActionOf(last.op)))
    => (NoWriteCall /\ store = last.before)

C1_Witness ==
  /\ last.op = "Delete"
  /\ ~Granted("delete")
  /\ Existing # {}
  /\ store = last.before

\* the capability check an operation makes first has been denied
FirstCheckDenied ==
  \/ last.op = "ListApps" /\ <<"repositories/apps", "get", last.url>> \notin last.claims
  \/ last.op = "Get" /\ ~Granted("get")
  \/ last.op \in {"Create", "Update", "Delete"} /\ ~Granted(ActionOf(last.op))

\* the "update" check of the upsert path of Create has been made and denied
UpsertCheckDenied ==
  /\ CreatePassed /\ last.upsert /\ ~Granted("update")
  /\ \E e \in Existing : ~SameSpec(e, Requested)

\* stored repositories List may not show the caller
Hidden == { e \in last.before : <<"repositories", "get", e.Repo>> \notin last.claims }

\* C2 as stated: every operation, List included, answers a denied capability
\* check on a repository with a permission-denied error.
C2_DenyIsPermissionDenied ==
  (FirstCheckDenied \/ UpsertCheckDenied \/ (last.op = "List" /\ Hidden # {}))
    => last.err = "PermissionDenied"

\* C2 amended: ListApps, Get, Create, Update and Delete answer a denied
\* capability check with a permission-denied error and nothing else; List never
\* does: it succeeds and returns, redacted, exactly the stored repositories the
\* caller may "get", leaving the others out.
C2_DenyIsPermissionDeniedExceptList ==
  /\ (FirstCheckDenied \/ UpsertCheckDenied)
       => (last.err = "PermissionDenied" /\ last.res = {} /\ last.items = {})
  /\ last.op = "List"
       => /\ last.err = "OK"
          /\ last.items = { Redacted(e) : e \in last.before \ Hidden }

C2_Witness ==
  /\ last.op = "List"
  /\ Hidden # {}
  /\ last.items # {}
  /\ last.err = "OK"

\* C4: an authorised Create with a passing connection test, for a URL stored
\* with the requested spec (ConnectionState apart), succeeds with the existing
\* repository (redacted, ConnectionState Successful), Upsert set or not, and
\* leaves the store as it was.
C4_CreateIdempotent ==
  \A e \in Existing :
    (CreatePassed /\ SameSpec(e, Requested))
      => /\ last.err = "OK"
         /\ last.res = { Redacted(AsWritten(e)) }
         /\ last.res = { Redacted(AsWritten(Requested)) }
         /\ store = last.before

C4_Witness ==
  /\ CreatePassed
  /\ last.upsert
  /\ ~Granted("update")
  /\ \E e \in Existing :
       /\ SameSpec(e, Requested)
       /\ e.ConnectionState # SuccessfulConnectionState
       /\ e.Password # ""
  /\ last.err = "OK"

\* C5: an authorised Create with a passing connection test and Upsert unset,
\* for a URL stored with a spec that differs outside ConnectionState, returns
\* InvalidArgument and no repository, and leaves the store as it was.
C5_CreateConflict ==
  \A e \in Existing :
    (CreatePassed /\ ~last.upsert /\ ~SameSpec(e, Requested))
      => /\ last.err = "InvalidArgument"
         /\ last.res = {}
         /\ store = last.before

C5_Witness ==
  /\ CreatePassed
  /\ ~last.upsert
  /\ \E e \in Existing : ~SameSpec(e, Requested)
  /\ last.err = "InvalidArgument"

\* C6: a Create for an already stored URL changes the store only on the upsert
\* path and only for a caller granted both "create" and "update": the stored
\* repository is then replaced by the requested one; with "create" but not
\* "update" the upsert is denied and the stored repository stays.
C6_UpsertNeedsUpdate ==
  \A e \in Existing :
    last.op = "Create" =>
      /\ store # last.before
           => /\ last.upsert /\ Granted("create") /\ Granted("update")
              /\ store = (last.before \ {e}) \cup {AsWritten(Requested)}
      /\ (CreatePassed /\ last.upsert /\ ~SameSpec(e, Requested))
           => IF Granted("update")
                THEN /\ last.err = "OK"
                     /\ store = (last.before \ {e}) \cup {AsWritten(Requested)}
                ELSE /\ last.err = "PermissionDenied"
                     /\ store = last.before

C6_Witness ==
  /\ CreatePassed
  /\ last.upsert
  /\ ~Granted("update")
  /\ \E e \in Existing : ~SameSpec(e, Requested) /\ e \in store
  /\ last.err = "PermissionDenied"

\* C7: when the connection test fails, an authorised Create returns the test's
\* error, makes no store call and leaves the store as it was, Upsert set or
\* not; every repository a Create writes has ConnectionState Successful.
C7_CreateTestsFirst ==
  last.op = "Create" =>
    /\ (Granted("create") /\ ~last.testOK)
         => /\ last.err = "TestRepoError"
            /\ last.res = {}
            /\ last.calls = <<>>
            /\ store = last.before
    /\ \A e \in store \ last.before :
         e.ConnectionState.Status = ConnectionStatusSuccessful

C7_Witness ==
  /\ last.op = "Create"
  /\ Granted("create")
  /\ Granted("update")
  /\ ~last.testOK
  /\ last.upsert
  /\ \E e \in Existing : ~SameSpec(e, Requested)
  /\ last.err = "TestRepoError"

\* C3: no application ever has two Running sync operations, and an operation
\* is rejected only on a dispatch that found another operation Running for
\* its application.
C3_MutualExclusion ==
  /\ \A a \in Apps : Cardinality(RunningFor(a)) <= 1
  /\ \A o \in Ops :
       phase[o] = "Rejected" =>
         /\ rejectedWhile[o] \in Ops \ {o}
         /\ opApp[rejectedWhile[o]] = opApp[o]
         /\ phase[rejectedWhile[o]] # "Pending"

C3_Witness ==
  \E o, p \in Ops :
    /\ o # p
    /\ opApp[o] = opApp[p]
    /\ phase[o] = "Running"
    /\ phase[p] = "Rejected"
    /\ rejectedWhile[p] = o

====
